---- MODULE Spec2Model ----
(***************************************************************************)
(* State-machine model of web/src/components/UserManagementComponent.vue:  *)
(* the reactive view state `userManagement`, the event handlers of the     *)
(* <script setup> block, and the asynchronous facade calls they await.     *)
(*                                                                         *)
(* Every async handler invocation is a task.  A task that awaits a facade  *)
(* call stays in `tasks` until the call settles; the handler's             *)
(* continuation then runs as one step, because a continuation runs to its  *)
(* next await without interruption on the single UI thread.  A call that   *)
(* succeeds takes effect at the facade first (FacadeResolves, reply "ok")  *)
(* and resumes its handler later; a call that fails changes nothing at the *)
(* facade, so a handler resuming while its call is still "pending" is the  *)
(* call failing.  Several tasks may be in flight at once: the component    *)
(* neither serialises nor cancels requests.                                *)
(*                                                                         *)
(* Strings that the code trims are sequences of one-character strings;     *)
(* strings that are only compared or tested for emptiness are TLA+ strings.*)
(***************************************************************************)
EXTENDS Integers, Sequences, FiniteSets, TLC

\* ---------------------------------------------------------------- bounds
\* Async handler invocations (mount fetch, valid submits, confirmed deletes)
\* in one behaviour; the user's events are followed up to the last of them.
MaxOps == 2
\* Confirmation dialogs open at the same time.
MaxDialogs == 1

\* ------------------------------------------------------------ input sets
\* What can be typed into the username box: blank, and a padded name.
UsernameInputs == { <<" ">>, <<" ", "a">> }
\* What can be typed into the password box.
PasswordInputs == { "", "p" }
\* What can be typed into the confirmation box.
ConfirmInputs == { "", "p" }
Roles == { "user", "admin", "superadmin" }

\* Notification messages (the component's literals, in English).
NoNotice            == "none"
MsgUsernameEmpty    == "username must not be empty"
MsgPasswordEmpty    == "password must not be empty"
MsgPasswordMismatch == "passwords do not match"
MsgUpdated          == "user updated"
MsgCreated          == "user created"
MsgOperationFailed  == "operation failed"
MsgSelfDelete       == "cannot delete own account"
MsgDeleted          == "user deleted"
MsgDeleteFailed     == "delete failed"
FetchErrorMsg       == "fetching the user list failed"
TitleAdd            == "add user"
TitleEdit           == "edit user"

\* null as the value of error.
Null   == "null"
\* null as the value of editUserId (record ids are positive).
NullId == 0
GetUsersCall == [op |-> "getUsers"]

VARIABLES
  userManagement,  \* the reactive view state
  userStore,       \* ambient identity of the acting user: userId, userRole
  mounted,         \* TRUE once onMounted has run
  tasks,           \* async handler invocations suspended at an await
  confirmDialogs,  \* open modal.confirm dialogs, each holding its captured user
  notice,          \* the notification raised by the latest step, if any
  server,          \* the remote user table behind the facade: id -> record
  ops,             \* async handler invocations started so far
  issued,          \* getUsers calls issued so far
  latestOk         \* the successfully settled getUsers call with the highest issue number

vars == << userManagement, userStore, mounted, tasks, confirmDialogs, notice,
           server, ops, issued, latestOk >>

\* ------------------------------------------------------------- strings
RECURSIVE TrimLeft(_)
TrimLeft(s) == IF s # <<>> /\ Head(s) = " " THEN TrimLeft(Tail(s)) ELSE s

RECURSIVE TrimRight(_)
TrimRight(s) ==
  IF s # <<>> /\ s[Len(s)] = " " THEN TrimRight(SubSeq(s, 1, Len(s) - 1)) ELSE s

\* String.prototype.trim
trim(s) == TrimRight(TrimLeft(s))

\* ------------------------------------------------------------- facade
RECURSIVE SortedIds(_)
SortedIds(S) ==
  IF S = {} THEN <<>>
  ELSE LET m == CHOOSE x \in S : \A y \in S : x <= y
       IN  <<m>> \o SortedIds(S \ {m})

\* The list the facade's getUsers resolves with: the table's records by id.
ListOf(srv) ==
  LET ids == SortedIds(DOMAIN srv)
  IN  [i \in 1..Len(ids) |->
         [id |-> ids[i], username |-> srv[ids[i]].username, role |-> srv[ids[i]].role]]

NextId(srv) == IF DOMAIN srv = {} THEN 1
               ELSE 1 + (CHOOSE x \in DOMAIN srv : \A y \in DOMAIN srv : y <= x)

\* Can the table carry out this call?  (update and delete need the record.)
Applicable(srv, call) ==
  CASE call.op = "createUser" -> TRUE
    [] call.op = "updateUser" -> call.id \in DOMAIN srv
    [] call.op = "deleteUser" -> call.id \in DOMAIN srv
    [] OTHER -> TRUE

\* The table after a successful call.
Apply(srv, call) ==
  CASE call.op = "createUser" ->
         [i \in DOMAIN srv \cup {NextId(srv)} |->
            IF i \in DOMAIN srv THEN srv[i]
            ELSE [username |-> call.data.username, role |-> call.data.role]]
    [] call.op = "updateUser" ->
         [srv EXCEPT ![call.id] =
            [username |-> call.data.username, role |-> call.data.role]]
    [] call.op = "deleteUser" ->
         [i \in DOMAIN srv \ {call.id} |-> srv[i]]
    [] OTHER -> srv

userStore_isSuperAdmin == userStore.userRole = "superadmin"

\* ------------------------------------------------------------- initial state
InitialForm == [username |-> <<>>, password |-> "", confirmPassword |-> "", role |-> "user"]

InitialUserManagement ==
  [ loading |-> FALSE, users |-> <<>>, error |-> Null, modalVisible |-> FALSE,
    modalTitle |-> TitleAdd, editMode |-> FALSE, editUserId |-> NullId,
    form |-> InitialForm, displayPasswordFields |-> TRUE ]

\* The acting user is record 1; record 2 is another account.
InitialServer(role, other) ==
  (1 :> [username |-> <<"m">>, role |-> role]) @@
  (2 :> [username |-> <<"r">>, role |-> other])

\* The roles of the other account: a superadmin, and for an acting admin
\* also a plain user, the one kind of record an admin may delete.
OtherRoles(role) == IF role = "superadmin" THEN {"superadmin"} ELSE {"user", "superadmin"}

Init ==
  /\ userManagement = InitialUserManagement
  /\ userStore \in { [userId |-> 1, userRole |-> r] : r \in {"admin", "superadmin"} }
  /\ mounted = FALSE
  /\ tasks = {}
  /\ confirmDialogs = {}
  /\ notice = NoNotice
  /\ server \in { InitialServer(userStore.userRole, o) : o \in OtherRoles(userStore.userRole) }
  /\ ops = 0
  /\ issued = 0
  /\ latestOk = [seq |-> 0, data |-> <<>>]


\* ------------------------------------------------------------- tasks
\* A task suspended at `call`.  seq numbers the getUsers calls by issue order
\* (0 for any other call); viaControl tells whether a delete was started
\* through an enabled delete button.
Task(id, kind, call, seq, viaControl) ==
  [ id |-> id, kind |-> kind, call |-> call, seq |-> seq,
    reply |-> "pending", data |-> <<>>, viaControl |-> viaControl ]

\* The task `t` suspended at its getUsers call, numbered by issue order.
AtGetUsers(t) == [t EXCEPT !.call = GetUsersCall, !.seq = issued + 1,
                           !.reply = "pending", !.data = <<>>]

\* Remember the settled getUsers call of `t` if it succeeded and was issued
\* after every successful one seen so far.
NoteFetch(t) ==
  IF t.reply = "ok" /\ t.seq > latestOk.seq
  THEN [seq |-> t.seq, data |-> t.data]
  ELSE latestOk

\* ------------------------------------------------------------- the facade resolves a call
\* The call succeeds: getUsers answers with the table as it is now, a
\* mutation is applied to the table.
FacadeResolves(t) ==
  /\ t \in tasks
  /\ t.reply = "pending"
  /\ IF t.call.op = "getUsers"
     THEN /\ tasks' = (tasks \ {t}) \cup {[t EXCEPT !.reply = "ok", !.data = ListOf(server)]}
          /\ server' = server
     ELSE /\ Applicable(server, t.call)
          /\ tasks' = (tasks \ {t}) \cup {[t EXCEPT !.reply = "ok"]}
          /\ server' = Apply(server, t.call)
  /\ notice' = NoNotice
  /\ UNCHANGED << userManagement, userStore, mounted, confirmDialogs, ops, issued, latestOk >>

\* ------------------------------------------------------------- watch(displayPasswordFields)
\* watchCallback that forgets the confirmation field.
watchCallbackPasswordOnly(um, newVal) ==
  IF ~newVal
  THEN [um EXCEPT !.form.password = ""]
  ELSE um

\* The watcher's callback for the new value: hiding the password fields
\* clears both of them.
watchCallback(um, newVal) ==
  IF ~newVal
  THEN [um EXCEPT !.form.password = "", !.form.confirmPassword = ""]
  ELSE um

\* The watcher runs its callback when the watched value has changed.
watchDisplayPasswordFields(old, um) ==
  IF um.displayPasswordFields # old.displayPasswordFields
  THEN watchCallback(um, um.displayPasswordFields)
  ELSE um

\* ------------------------------------------------------------- fetchUsers
\* fetchUsers up to its await: loading is set and getUsers is called.
fetchUsersBegin(um) == [um EXCEPT !.loading = TRUE]

\* fetchUsersSettle without its finally block.
fetchUsersSettleKeepingLoading(um, reply, data) ==
  IF reply = "ok"
  THEN [um EXCEPT !.users = data, !.error = Null]
  ELSE [um EXCEPT !.error = FetchErrorMsg]

\* fetchUsersSettle that empties the list when the call failed.
fetchUsersSettleClearing(um, reply, data) ==
  LET tried == IF reply = "ok"
               THEN [um EXCEPT !.users = data, !.error = Null]
               ELSE [um EXCEPT !.users = <<>>, !.error = FetchErrorMsg]
  IN  [tried EXCEPT !.loading = FALSE]

\* fetchUsers after its await: try / catch / finally.
fetchUsersSettle(um, reply, data) ==
  LET tried == IF reply = "ok"
               THEN [um EXCEPT !.users = data, !.error = Null]
               ELSE [um EXCEPT !.error = FetchErrorMsg]
  IN  [tried EXCEPT !.loading = FALSE]

\* onMounted(() => fetchUsers())
onMounted ==
  /\ ~mounted
  /\ ops < MaxOps
  /\ mounted' = TRUE
  /\ userManagement' = fetchUsersBegin(userManagement)
  /\ tasks' = tasks \cup {AtGetUsers(Task(ops + 1, "mount", GetUsersCall, 0, TRUE))}
  /\ ops' = ops + 1
  /\ issued' = issued + 1
  /\ notice' = NoNotice
  /\ UNCHANGED << userStore, confirmDialogs, server, latestOk >>

\* The mount-time fetchUsers resumes after its getUsers call settled.
fetchUsersSettled(t) ==
  /\ t \in tasks
  /\ t.kind = "mount"
  /\ userManagement' = fetchUsersSettle(userManagement, t.reply, t.data)
  /\ latestOk' = NoteFetch(t)
  /\ tasks' = tasks \ {t}
  /\ notice' = NoNotice
  /\ UNCHANGED << userStore, mounted, confirmDialogs, server, ops, issued >>


\* ------------------------------------------------------------- the user
\* The component is mounted and the user is still at work: a behaviour is
\* followed until its MaxOps-th operation has been started, after which the
\* requests in flight complete and nothing new is started.
Active == mounted /\ ops < MaxOps

\* ------------------------------------------------------------- opening the modal
\* addUserForm that leaves the form as it was.
addUserFormKeepingForm(um) ==
  [um EXCEPT
     !.modalTitle = TitleAdd,
     !.editMode = FALSE,
     !.editUserId = NullId,
     !.displayPasswordFields = TRUE,
     !.modalVisible = TRUE]

\* The view state after showAddUserModal, before the watcher runs.
addUserForm(um) ==
  [um EXCEPT
     !.modalTitle = TitleAdd,
     !.editMode = FALSE,
     !.editUserId = NullId,
     !.form = [username |-> <<>>, password |-> "", confirmPassword |-> "",
               role |-> "user"],
     !.displayPasswordFields = TRUE,
     !.modalVisible = TRUE]

\* The "add user" button.
showAddUserModal ==
  /\ Active
  /\ userManagement' =
       watchDisplayPasswordFields(userManagement, addUserForm(userManagement))
  /\ notice' = NoNotice
  /\ UNCHANGED << userStore, mounted, tasks, confirmDialogs, server,
                  ops, issued, latestOk >>

\* The view state after showEditUserModal(user), before the watcher runs.
editUserForm(um, user) ==
  [um EXCEPT
     !.modalTitle = TitleEdit,
     !.editMode = TRUE,
     !.editUserId = user.id,
     !.form = [username |-> user.username, password |-> "", confirmPassword |-> "",
               role |-> user.role],
     !.displayPasswordFields = FALSE,
     !.modalVisible = TRUE]

\* The edit button of a table row.
showEditUserModal(user) ==
  /\ Active
  /\ userManagement' =
       watchDisplayPasswordFields(userManagement, editUserForm(userManagement, user))
  /\ notice' = NoNotice
  /\ UNCHANGED << userStore, mounted, tasks, confirmDialogs, server,
                  ops, issued, latestOk >>

\* ------------------------------------------------------------- the modal's controls
\* The rows of the table: the records of userManagement.users.
Rows == { userManagement.users[i] : i \in 1..Len(userManagement.users) }

PasswordInputsShown ==
  ~userManagement.editMode \/ userManagement.displayPasswordFields

RoleOptions == {"user"} \cup (IF userStore_isSuperAdmin THEN {"admin", "superadmin"} ELSE {})

InputUsername(s) ==
  /\ Active /\ userManagement.modalVisible
  /\ userManagement' = [userManagement EXCEPT !.form.username = s]
  /\ notice' = NoNotice
  /\ UNCHANGED << userStore, mounted, tasks, confirmDialogs, server,
                  ops, issued, latestOk >>

InputPassword(p) ==
  /\ Active /\ userManagement.modalVisible /\ PasswordInputsShown
  /\ userManagement' = [userManagement EXCEPT !.form.password = p]
  /\ notice' = NoNotice
  /\ UNCHANGED << userStore, mounted, tasks, confirmDialogs, server,
                  ops, issued, latestOk >>

InputConfirmPassword(p) ==
  /\ Active /\ userManagement.modalVisible /\ PasswordInputsShown
  /\ userManagement' = [userManagement EXCEPT !.form.confirmPassword = p]
  /\ notice' = NoNotice
  /\ UNCHANGED << userStore, mounted, tasks, confirmDialogs, server,
                  ops, issued, latestOk >>

SelectRole(r) ==
  /\ Active /\ userManagement.modalVisible
  /\ r \in RoleOptions
  /\ userManagement' = [userManagement EXCEPT !.form.role = r]
  /\ notice' = NoNotice
  /\ UNCHANGED << userStore, mounted, tasks, confirmDialogs, server,
                  ops, issued, latestOk >>

\* ToggleDisplayPasswordFields offered in add mode as well.
ToggleDisplayPasswordFieldsAnyMode ==
  /\ Active /\ userManagement.modalVisible
  /\ userManagement' =
       watchDisplayPasswordFields(userManagement,
         [userManagement EXCEPT !.displayPasswordFields = ~@])
  /\ notice' = NoNotice
  /\ UNCHANGED << userStore, mounted, tasks, confirmDialogs, server,
                  ops, issued, latestOk >>

\* The "change password" checkbox, offered in edit mode only.
ToggleDisplayPasswordFields ==
  /\ Active /\ userManagement.modalVisible /\ userManagement.editMode
  /\ userManagement' =
       watchDisplayPasswordFields(userManagement,
         [userManagement EXCEPT !.displayPasswordFields = ~@])
  /\ notice' = NoNotice
  /\ UNCHANGED << userStore, mounted, tasks, confirmDialogs, server,
                  ops, issued, latestOk >>

\* The modal's cancel button.
CancelModal ==
  /\ Active /\ userManagement.modalVisible
  /\ userManagement' = [userManagement EXCEPT !.modalVisible = FALSE]
  /\ notice' = NoNotice
  /\ UNCHANGED << userStore, mounted, tasks, confirmDialogs, server,
                  ops, issued, latestOk >>

\* ------------------------------------------------------------- handleUserFormSubmit
\* validate without its last check: mismatched passwords pass.
validateNoMismatch(um) ==
  IF trim(um.form.username) = <<>> THEN MsgUsernameEmpty
  ELSE IF um.displayPasswordFields /\ um.form.password = "" THEN MsgPasswordEmpty
  ELSE Null

\* The validation at the head of handleUserFormSubmit: the message of the
\* first check that fails, or Null when the form passes.
validate(um) ==
  IF trim(um.form.username) = <<>> THEN MsgUsernameEmpty
  ELSE IF um.displayPasswordFields /\ um.form.password = "" THEN MsgPasswordEmpty
  ELSE IF um.displayPasswordFields /\ um.form.password # um.form.confirmPassword
       THEN MsgPasswordMismatch
  ELSE Null

\* updateData that copies the password whatever the form shows.
updateDataAlwaysPassword(um) ==
  [username |-> trim(um.form.username), role |-> um.form.role,
   password |-> um.form.password]

\* The payload of updateUser.
updateData(um) ==
  IF um.displayPasswordFields /\ um.form.password # ""
  THEN [username |-> trim(um.form.username), role |-> um.form.role,
        password |-> um.form.password]
  ELSE [username |-> trim(um.form.username), role |-> um.form.role]

\* The payload of createUser.
createData(um) ==
  [username |-> trim(um.form.username), password |-> um.form.password,
   role |-> um.form.role]

\* submitCall that creates whatever the mode.
submitCallAlwaysCreate(um) == [op |-> "createUser", data |-> createData(um)]

\* The facade call a valid submission makes.
submitCall(um) ==
  IF um.editMode
  THEN [op |-> "updateUser", id |-> um.editUserId, data |-> updateData(um)]
  ELSE [op |-> "createUser", data |-> createData(um)]

\* The modal's ok button: handleUserFormSubmit up to its first await, or to
\* its return when validation rejects the form.  The returns sit inside the
\* try block, so the finally block runs on them as well.
handleUserFormSubmit ==
  /\ Active /\ userManagement.modalVisible
  /\ IF validate(userManagement) # Null
     THEN /\ notice' = validate(userManagement)
          /\ userManagement' = [userManagement EXCEPT !.loading = FALSE]
          /\ UNCHANGED << tasks, ops >>
     ELSE /\ userManagement' = [userManagement EXCEPT !.loading = TRUE]
          /\ tasks' = tasks \cup
               {Task(ops + 1, "submit", submitCall(userManagement), 0, TRUE)}
          /\ ops' = ops + 1
          /\ notice' = NoNotice
  /\ UNCHANGED << userStore, mounted, confirmDialogs, server, issued, latestOk >>


\* submitCatch that also closes the modal.
submitCatchClosing(um) == [um EXCEPT !.loading = FALSE, !.modalVisible = FALSE]

\* The catch and finally blocks of handleUserFormSubmit, as far as the view
\* state goes: the modal and the form are left alone.
submitCatch(um) == [um EXCEPT !.loading = FALSE]

\* handleUserFormSubmit resumes after its createUser / updateUser call
\* settled: on success it notifies and enters fetchUsers, on failure it
\* notifies and runs its finally block.
handleUserFormSubmitMutated(t) ==
  /\ t \in tasks
  /\ t.kind = "submit" /\ t.call.op # "getUsers"
  /\ IF t.reply = "ok"
     THEN /\ notice' = (IF t.call.op = "updateUser" THEN MsgUpdated ELSE MsgCreated)
          /\ userManagement' = fetchUsersBegin(userManagement)
          /\ tasks' = (tasks \ {t}) \cup {AtGetUsers(t)}
          /\ issued' = issued + 1
     ELSE /\ notice' = MsgOperationFailed
          /\ userManagement' = submitCatch(userManagement)
          /\ tasks' = tasks \ {t}
          /\ issued' = issued
  /\ UNCHANGED << userStore, mounted, confirmDialogs, server, ops, latestOk >>

\* The tail of handleUserFormSubmit once fetchUsers has returned: the modal
\* is closed, then the finally block runs.
submitTail(um) == [um EXCEPT !.modalVisible = FALSE, !.loading = FALSE]

\* handleUserFormSubmit resumes after the getUsers call of its fetchUsers
\* settled: fetchUsers finishes, then the handler's tail runs.
handleUserFormSubmitFetched(t) ==
  /\ t \in tasks
  /\ t.kind = "submit" /\ t.call.op = "getUsers"
  /\ userManagement' = submitTail(fetchUsersSettle(userManagement, t.reply, t.data))
  /\ latestOk' = NoteFetch(t)
  /\ tasks' = tasks \ {t}
  /\ notice' = NoNotice
  /\ UNCHANGED << userStore, mounted, confirmDialogs, server, ops, issued >>

\* ------------------------------------------------------------- confirmDeleteUser
\* deleteDisabled that only protects the acting user's own row.
deleteDisabledSelfOnly(record) == record.id = userStore.userId

\* The :disabled binding of a row's delete button.
deleteDisabled(record) ==
  \/ record.id = userStore.userId
  \/ (record.role = "superadmin" /\ userStore.userRole # "superadmin")

\* isSelf with its comparison inverted.
isSelfInverted(user) == user.id # userStore.userId

\* The guard at the head of confirmDeleteUser.
isSelf(user) == user.id = userStore.userId

\* confirmDeleteUser(user): rejected for the acting user's own record,
\* otherwise a confirmation dialog is opened for the user.  The dialog
\* remembers whether the row's delete button was enabled at that moment.
confirmDeleteUser(user) ==
  /\ Active
  /\ IF isSelf(user)
     THEN /\ notice' = MsgSelfDelete
          /\ confirmDialogs' = confirmDialogs
     ELSE /\ Cardinality(confirmDialogs) < MaxDialogs
          /\ confirmDialogs' = confirmDialogs \cup
               {[user |-> user, viaControl |-> ~deleteDisabled(user)]}
          /\ notice' = NoNotice
  /\ UNCHANGED << userManagement, userStore, mounted, tasks, server, ops,
                  issued, latestOk >>

\* confirmCancel that calls deleteUser all the same.
confirmCancelDeleting(d) ==
  /\ Active
  /\ d \in confirmDialogs
  /\ confirmDialogs' = confirmDialogs \ {d}
  /\ tasks' = tasks \cup
       {Task(ops + 1, "delete", [op |-> "deleteUser", id |-> d.user.id], 0, d.viaControl)}
  /\ ops' = ops + 1
  /\ notice' = NoNotice
  /\ UNCHANGED << userManagement, userStore, mounted, server, issued, latestOk >>

\* The dialog's cancel button.
confirmCancel(d) ==
  /\ Active
  /\ d \in confirmDialogs
  /\ confirmDialogs' = confirmDialogs \ {d}
  /\ notice' = NoNotice
  /\ UNCHANGED << userManagement, userStore, mounted, tasks, server,
                  ops, issued, latestOk >>

\* The facade call onOk makes.
deleteCall(user) == [op |-> "deleteUser", id |-> user.id]

\* The dialog's ok button: onOk up to its await of deleteUser.
onOk(d) ==
  /\ Active
  /\ d \in confirmDialogs
  /\ confirmDialogs' = confirmDialogs \ {d}
  /\ userManagement' = [userManagement EXCEPT !.loading = TRUE]
  /\ tasks' = tasks \cup
       {Task(ops + 1, "delete", deleteCall(d.user), 0, d.viaControl)}
  /\ ops' = ops + 1
  /\ notice' = NoNotice
  /\ UNCHANGED << userStore, mounted, server, issued, latestOk >>

\* onOkDeleted that re-fetches the list whether or not deleteUser succeeded.
onOkDeletedAlwaysFetching(t) ==
  /\ t \in tasks
  /\ t.kind = "delete" /\ t.call.op # "getUsers"
  /\ notice' = (IF t.reply = "ok" THEN MsgDeleted ELSE MsgDeleteFailed)
  /\ userManagement' = fetchUsersBegin(userManagement)
  /\ tasks' = (tasks \ {t}) \cup {AtGetUsers(t)}
  /\ issued' = issued + 1
  /\ UNCHANGED << userStore, mounted, confirmDialogs, server, ops, latestOk >>

\* onOkCatch without the finally block.
onOkCatchKeepingLoading(um) == um

\* The catch and finally blocks of onOk, as far as the view state goes.
onOkCatch(um) == [um EXCEPT !.loading = FALSE]

\* onOk resumes after its deleteUser call settled.
onOkDeleted(t) ==
  /\ t \in tasks
  /\ t.kind = "delete" /\ t.call.op # "getUsers"
  /\ IF t.reply = "ok"
     THEN /\ notice' = MsgDeleted
          /\ userManagement' = fetchUsersBegin(userManagement)
          /\ tasks' = (tasks \ {t}) \cup {AtGetUsers(t)}
          /\ issued' = issued + 1
     ELSE /\ notice' = MsgDeleteFailed
          /\ userManagement' = onOkCatch(userManagement)
          /\ tasks' = tasks \ {t}
          /\ issued' = issued
  /\ UNCHANGED << userStore, mounted, confirmDialogs, server, ops, latestOk >>

\* The tail of onOk once fetchUsers has returned: its finally block.
onOkTail(um) == [um EXCEPT !.loading = FALSE]

\* onOk resumes after the getUsers call of its fetchUsers settled.
onOkFetched(t) ==
  /\ t \in tasks
  /\ t.kind = "delete" /\ t.call.op = "getUsers"
  /\ userManagement' = onOkTail(fetchUsersSettle(userManagement, t.reply, t.data))
  /\ latestOk' = NoteFetch(t)
  /\ tasks' = tasks \ {t}
  /\ notice' = NoNotice
  /\ UNCHANGED << userStore, mounted, confirmDialogs, server, ops, issued >>

\* ------------------------------------------------------------- specification
Next ==
  \/ onMounted
  \/ \E t \in tasks : FacadeResolves(t)
  \/ \E t \in tasks : fetchUsersSettled(t)
  \/ showAddUserModal
  \/ \E u \in Rows : showEditUserModal(u)
  \/ \E s \in UsernameInputs : InputUsername(s)
  \/ \E p \in PasswordInputs : InputPassword(p)
  \/ \E p \in ConfirmInputs : InputConfirmPassword(p)
  \/ \E r \in Roles : SelectRole(r)
  \/ ToggleDisplayPasswordFields
  \/ CancelModal
  \/ handleUserFormSubmit
  \/ \E t \in tasks : handleUserFormSubmitMutated(t)
  \/ \E t \in tasks : handleUserFormSubmitFetched(t)
  \/ \E u \in Rows : confirmDeleteUser(u)
  \/ \E d \in confirmDialogs : confirmCancel(d)
  \/ \E d \in confirmDialogs : onOk(d)
  \/ \E t \in tasks : onOkDeleted(t)
  \/ \E t \in tasks : onOkFetched(t)

Spec == Init /\ [][Next]_vars

\* A handler suspended at an await resumes: the continuation of some task.
Resume ==
  \E t \in tasks :
    \/ fetchUsersSettled(t)
    \/ handleUserFormSubmitMutated(t)
    \/ handleUserFormSubmitFetched(t)
    \/ onOkDeleted(t)
    \/ onOkFetched(t)

\* Every facade call settles in the end, and the event loop then runs the
\* continuation of the handler awaiting it.
LiveSpec == Spec /\ WF_vars(Resume)


\* ------------------------------------------------------------- vocabulary of the properties
ValidationMsgs == { MsgUsernameEmpty, MsgPasswordEmpty, MsgPasswordMismatch }

\* The form fails validation, in the words of the specification.
FormInvalid ==
  \/ trim(userManagement.form.username) = <<>>
  \/ userManagement.displayPasswordFields /\ userManagement.form.password = ""
  \/ userManagement.displayPasswordFields
       /\ userManagement.form.password # userManagement.form.confirmPassword

IsMutation(call) == call.op \in {"createUser", "updateUser", "deleteUser"}

TaskIds(ts) == { t.id : t \in ts }

\* The tasks started by this step.
Started == { t \in tasks' : t.id \notin TaskIds(tasks) }

\* This step resumes the handler of task t: t no longer awaits its call.
Resumed(t) == ~ \E t2 \in tasks' : t2.id = t.id /\ t2.call = t.call

\* This step ends the handler of task t.
Finished(t) == t.id \notin TaskIds(tasks')

\* ------------------------------------------------------------- C1
\* C1: a submission whose form fails validation (username empty after
\* trimming, or password fields shown and password empty, or password
\* fields shown and password different from its confirmation) starts no
\* task and makes no facade call.
C1_RejectedSubmitCallsNothing ==
  [][ (handleUserFormSubmit /\ FormInvalid)
        => /\ tasks' = tasks
           /\ ops' = ops
           /\ issued' = issued
           /\ notice' \in ValidationMsgs ]_vars

\* A submission with mismatched passwords has just been rejected.
C1_Witness ==
  /\ notice = MsgPasswordMismatch
  /\ userManagement.form.password # userManagement.form.confirmPassword

\* ------------------------------------------------------------- C2
\* C2: the payload of an updateUser call has a password key only if the
\* password fields are shown and the password is non-empty at submission;
\* an edit submitted with the fields hidden sends exactly the trimmed
\* username and the role.
C2_UpdatePayloadPassword ==
  [][ \A t \in Started :
        t.call.op = "updateUser" =>
          /\ "password" \in DOMAIN t.call.data
               => /\ userManagement.displayPasswordFields
                  /\ userManagement.form.password # ""
                  /\ t.call.data.password = userManagement.form.password
          /\ ~userManagement.displayPasswordFields
               => t.call.data = [username |-> trim(userManagement.form.username),
                                 role |-> userManagement.form.role] ]_vars

\* An update is in flight whose payload carries no password.
C2_Witness ==
  \E t \in tasks : /\ t.call.op = "updateUser"
                   /\ DOMAIN t.call.data = {"username", "role"}

\* ------------------------------------------------------------- C3
\* C3: deleteUser is never called with the acting user's own id, no
\* confirmation dialog is ever open for the acting user's own record, and
\* confirmDeleteUser on that record only raises the error notice.
C3_NeverDeletesSelf ==
  /\ [](/\ \A t \in tasks :
             t.call.op = "deleteUser" => t.call.id # userStore.userId
        /\ \A d \in confirmDialogs : d.user.id # userStore.userId)
  /\ [][ \A u \in Rows :
           (confirmDeleteUser(u) /\ u.id = userStore.userId)
             => /\ notice' = MsgSelfDelete
                /\ UNCHANGED << confirmDialogs, tasks, userManagement, server >> ]_vars

\* confirmDeleteUser has just rejected the acting user's own record.
C3_Witness == notice = MsgSelfDelete


C5_RefetchIffMutationSucceeded ==
  [][ \A t \in tasks :
        (IsMutation(t.call) /\ Resumed(t)) =>
          IF t.reply = "ok"
          THEN /\ \E t2 \in tasks' : /\ t2.id = t.id
                                     /\ t2.call.op = "getUsers"
                                     /\ t2.reply = "pending"
                                     /\ t2.seq = issued'
               /\ issued' = issued + 1
          ELSE /\ Finished(t)
               /\ issued' = issued ]_vars

\* A submission's mutation has succeeded and its re-fetch is in flight.
C5_Witness ==
  /\ notice \in {MsgCreated, MsgUpdated, MsgDeleted}
  /\ \E t \in tasks : t.kind \in {"submit", "delete"} /\ t.call.op = "getUsers"

\* ------------------------------------------------------------- C6
\* C6: while displayPasswordFields is false both password fields are empty;
\* a step that turns it off leaves both fields empty, and so does a step
\* that turns it on.
C6_HiddenPasswordFieldsAreEmpty ==
  /\ [](~userManagement.displayPasswordFields
          => /\ userManagement.form.password = ""
             /\ userManagement.form.confirmPassword = "")
  /\ [][ userManagement'.displayPasswordFields # userManagement.displayPasswordFields
           => /\ userManagement'.form.password = ""
              /\ userManagement'.form.confirmPassword = "" ]_vars

\* The password fields of an open edit form are hidden.
C6_Witness ==
  /\ userManagement.modalVisible
  /\ userManagement.editMode
  /\ ~userManagement.displayPasswordFields

\* ------------------------------------------------------------- C7
\* C7 (as claimed): a submission rejected by validation leaves error and
\* loading unchanged.
C7_RejectedSubmitKeepsLoading ==
  [][ (handleUserFormSubmit /\ FormInvalid)
        => /\ userManagement'.error = userManagement.error
           /\ userManagement'.loading = userManagement.loading ]_vars

\* ------------------------------------------------------------- C8
\* C8 (as claimed): once no request is in flight, users is the result of the
\* most recently issued getUsers call among those that succeeded.
C8_LatestIssuedFetchWins ==
  (mounted /\ tasks = {} /\ latestOk.seq > 0)
    => userManagement.users = latestOk.data

\* ------------------------------------------------------------- C9
\* C9 (as claimed): in edit mode editUserId is the id of a record in users.
C9_EditTargetExists ==
  userManagement.editMode
    => /\ userManagement.editUserId # NullId
       /\ \E u \in Rows : u.id = userManagement.editUserId

\* ------------------------------------------------------------- C10
\* C10: the step in which handleUserFormSubmit resumes after its createUser
\* or updateUser call leaves modalVisible and the form as they are, whether
\* the call failed or succeeded; a step that ends a submission closes the
\* modal only if that submission was suspended at the getUsers call of its
\* follow-up fetch.
C10_ModalStaysOpenOnFailure ==
  [][ \A t \in tasks :
        /\ (t.kind = "submit" /\ IsMutation(t.call) /\ Resumed(t))
             => /\ userManagement'.modalVisible = userManagement.modalVisible
                /\ userManagement'.form = userManagement.form
        /\ (t.kind = "submit" /\ Finished(t)
              /\ userManagement.modalVisible /\ ~userManagement'.modalVisible)
             => t.call.op = "getUsers" ]_vars

\* A submission has just failed and the modal is still open.
C10_Witness ==
  /\ notice = MsgOperationFailed
  /\ userManagement.modalVisible

\* ------------------------------------------------------------- C11
\* C11: the delete button of a row is disabled when the row is the acting
\* user's own or when the row is a superadmin and the acting user is not;
\* so a confirmation opened through an enabled button by an actor who is not
\* superadmin is never for a superadmin row, and a deleteUser call started
\* through an enabled button by such an actor comes from such a confirmation.
C11_DeleteControlGated ==
  /\ [](/\ \A u \in Rows :
             (\/ u.id = userStore.userId
              \/ (u.role = "superadmin" /\ userStore.userRole # "superadmin"))
               => deleteDisabled(u)
        /\ \A d \in confirmDialogs :
             (d.viaControl /\ userStore.userRole # "superadmin")
               => d.user.role # "superadmin")
  /\ [][ \A t \in Started :
           (t.call.op = "deleteUser" /\ t.viaControl
              /\ userStore.userRole # "superadmin")
             => \E d \in confirmDialogs : /\ d.viaControl
                                          /\ d.user.id = t.call.id
                                          /\ d.user.role # "superadmin" ]_vars

\* An acting admin has started a deletion through an enabled button.
C11_Witness ==
  /\ userStore.userRole # "superadmin"
  /\ \E t \in tasks : t.call.op = "deleteUser" /\ t.viaControl

\* ------------------------------------------------------------- C12
\* C12: a step starts a deleteUser call only as the ok button of an open
\* confirmation dialog for the user with that id; cancelling a dialog starts
\* nothing; the step in which onOk resumes after deleteUser failed leaves
\* users alone, issues no getUsers call and ends the handler with the
\* failure notice.
C12_DeleteOnlyWhenConfirmed ==
  [][ /\ \A t \in Started :
           t.call.op = "deleteUser"
             => \E d \in confirmDialogs : /\ d.user.id = t.call.id
                                          /\ onOk(d)
      /\ \A d \in confirmDialogs :
           confirmCancel(d) => /\ tasks' = tasks
                               /\ server' = server
      /\ \A t \in tasks :
           (t.call.op = "deleteUser" /\ Resumed(t) /\ t.reply # "ok")
             => /\ userManagement'.users = userManagement.users
                /\ issued' = issued
                /\ Finished(t)
                /\ notice' = MsgDeleteFailed ]_vars

\* A confirmed deletion has just failed while the table held a list.
C12_Witness ==
  /\ notice = MsgDeleteFailed
  /\ userManagement.users # <<>>

\* ------------------------------------------------------------- C13
\* C13: a step that issues a getUsers call sets loading to true; the step in
\* which a handler resumes after its getUsers call settled sets loading to
\* false whether the call succeeded or failed, and sets error to null when
\* it succeeded; and when every call settles and its handler resumes,
\* loading that is true is false again later.
C13_FetchUsersLoading ==
  /\ [][ /\ issued' # issued => userManagement'.loading
         /\ \A t \in tasks :
              (t.call.op = "getUsers" /\ Resumed(t))
                => /\ ~userManagement'.loading
                   /\ t.reply = "ok" => userManagement'.error = Null ]_vars
  /\ (userManagement.loading ~> ~userManagement.loading)

\* A fetch has succeeded and left loading false and error null.
C13_Witness ==
  /\ mounted
  /\ tasks = {}
  /\ latestOk.seq > 0
  /\ ~userManagement.loading
  /\ userManagement.error = Null

\* ------------------------------------------------------------- C14
\* C14 (as claimed): while the facade call of some operation has not
\* completed, loading is true, whatever other operations have started or
\* completed since that operation set it.
C14_PendingRequestKeepsLoading ==
  (\E t \in tasks : t.reply = "pending") => userManagement.loading

\* ------------------------------------------------------------- C15
\* The view state showAddUserModal leaves, watcher included.
AfterShowAdd == watchDisplayPasswordFields(userManagement, addUserForm(userManagement))

\* The view state showEditUserModal(u) leaves, watcher included.
AfterShowEdit(u) ==
  watchDisplayPasswordFields(userManagement, editUserForm(userManagement, u))

\* C15: from every reachable view state, whatever the form holds,
\* showAddUserModal leaves the form blank with role "user", editMode false,
\* editUserId null and the password fields shown; showEditUserModal(u)
\* leaves the form with u's username and role and both password fields
\* empty, editMode true, editUserId = u.id and the password fields hidden.
C15_ModalOpenResetsForm ==
  /\ LET add == AfterShowAdd
     IN  /\ add.form = [username |-> <<>>, password |-> "", confirmPassword |-> "",
                        role |-> "user"]
         /\ ~add.editMode
         /\ add.editUserId = NullId
         /\ add.displayPasswordFields
  /\ \A u \in Rows :
       LET edit == AfterShowEdit(u)
       IN  /\ edit.form = [username |-> u.username, password |-> "",
                           confirmPassword |-> "", role |-> u.role]
           /\ edit.editMode
           /\ edit.editUserId = u.id
           /\ ~edit.displayPasswordFields

\* The edit modal is open on a row of the table, as showEditUserModal
\* leaves it.
C15_Witness ==
  /\ userManagement.modalVisible
  /\ userManagement.editMode
  /\ ~userManagement.displayPasswordFields
  /\ \E u \in Rows :
       /\ userManagement.editUserId = u.id
       /\ userManagement.form = [username |-> u.username, password |-> "",
                                 confirmPassword |-> "", role |-> u.role]

\* ------------------------------------------------------------- C16
\* C16: a submission that passes validation starts exactly one call: in add
\* mode createUser with the trimmed username, the password and the role of
\* the form, in edit mode updateUser with the id held in editUserId and
\* never createUser; and the handler of a submission makes no second
\* mutating call when it resumes.
C16_SubmitDispatch ==
  [][ /\ (handleUserFormSubmit /\ ~FormInvalid)
           => /\ Cardinality(Started) = 1
              /\ \A t \in Started :
                   IF userManagement.editMode
                   THEN /\ t.call.op = "updateUser"
                        /\ t.call.id = userManagement.editUserId
                   ELSE t.call =
                          [op |-> "createUser",
                           data |-> [username |-> trim(userManagement.form.username),
                                     password |-> userManagement.form.password,
                                     role |-> userManagement.form.role]]
      /\ \A t \in tasks :
           (t.kind = "submit" /\ Resumed(t))
             => \A t2 \in tasks' : t2.id = t.id => t2.call.op = "getUsers" ]_vars

\* A createUser call is in flight whose username was trimmed on submission.
C16_Witness ==
  \E t \in tasks : /\ t.call.op = "createUser"
                   /\ t.call.data.username = <<"a">>
                   /\ userManagement.form.username = <<" ", "a">>

\* ------------------------------------------------------------- C17
\* C17: outside edit mode the password fields are always shown; no
\* createUser call carries an empty password, and a step that starts a
\* createUser call finds the password equal to its confirmation.
C17_AddModeShowsPasswordFields ==
  /\ [](/\ ~userManagement.editMode => userManagement.displayPasswordFields
        /\ \A t \in tasks :
             t.call.op = "createUser" => t.call.data.password # "")
  /\ [][ \A t \in Started :
           t.call.op = "createUser"
             => /\ userManagement.displayPasswordFields
                /\ t.call.data.password = userManagement.form.confirmPassword ]_vars

\* A createUser call made from the add form is in flight with its password.
C17_Witness ==
  /\ ~userManagement.editMode
  /\ userManagement.displayPasswordFields
  /\ \E t \in tasks : /\ t.call.op = "createUser"
                      /\ t.call.data.password = "p"

\* ------------------------------------------------------------- C18
\* C18: whenever no handler is suspended at a facade call (no fetch, submit
\* or delete in flight), loading is false.
C18_QuiescentNotLoading ==
  tasks = {} => ~userManagement.loading

\* Every operation of the behaviour has ended, a fetch among them having
\* failed.
C18_Witness ==
  /\ mounted
  /\ tasks = {}
  /\ ops = MaxOps
  /\ userManagement.error = FetchErrorMsg

====
